---- MODULE Spec2Model ----
(***************************************************************************)
(* HLSLAnalyzer (src/src/HLSLAnalyzer.cpp): the context analyzer that      *)
(* walks a parsed HLSL program, resolves type names against the scoped     *)
(* symbol table and decorates the tree in place.                           *)
(*                                                                         *)
(* The recursive walk is unfolded into steps: `stack` is the call stack of *)
(* the visitor, one entry per pending call or per pending remainder of a   *)
(* handler (the part of a handler that runs after its children returned).  *)
(***************************************************************************)
EXTENDS Integers, Sequences, FiniteSets, TLC

\* How many times DecorateAST is called on the one analyzer instance.
MaxCalls == 2

\* nullptr: a missing child, an unset symbolRef, a null program.
NULL == 0

(***************************************************************************)
(* The tree.  A program is a table of nodes; node ids are table indices.   *)
(* Every node is one record shape; the accessors below give the fields     *)
(* their names in the source.                                              *)
(*   kind  : AST::Types of the node                                        *)
(*   name  : name / baseType / bufferType / full name of the called ident  *)
(*   list  : globalDecls / stmnts / arguments / members / parameters /     *)
(*           varDecls / semantics                                          *)
(*   child : structure / returnType / varType / structType / initializer   *)
(*   body  : codeBlock                                                     *)
(* The tables handed to the analyzer also record, as `parent`, where each  *)
(* node hangs in the tree.                                                 *)
(***************************************************************************)
Node(kind, name, list, child, body) ==
    [kind |-> kind, name |-> name, list |-> list, child |-> child, body |-> body]

ProgramNode(decls)              == Node("Program", "", decls, NULL, NULL)
CodeBlockNode(stmnts)           == Node("CodeBlock", "", stmnts, NULL, NULL)
FunctionCallNode(nm, args)      == Node("FunctionCall", nm, args, NULL, NULL)
StructureNode(nm, members)      == Node("Structure", nm, members, NULL, NULL)
FunctionDeclNode(nm, ret, params, blk) == Node("FunctionDecl", nm, params, ret, blk)
BufferDeclNode(bt, members)     == Node("BufferDecl", bt, members, NULL, NULL)
StructDeclNode(s)               == Node("StructDecl", "", <<>>, s, NULL)
VarDeclStmntNode(vt, decls)     == Node("VarDeclStmnt", "", decls, vt, NULL)
CtrlTransferStmntNode           == Node("CtrlTransferStmnt", "", <<>>, NULL, NULL)
VarSemanticNode                 == Node("VarSemantic", "", <<>>, NULL, NULL)
VarTypeNode(base, st)           == Node("VarType", base, <<>>, st, NULL)
VarDeclNode(nm, sems, init)     == Node("VarDecl", nm, sems, init, NULL)

\* The names the input programs are built from.
StructNames    == {"S", "VOut"}
FunctionNames  == {"main", "foo"}
EntryNames     == {"main", "foo"}
BufferTypes    == {"cbuffer", "tbuffer"}
InterlockedNames ==
    {"InterlockedAdd", "InterlockedAnd", "InterlockedOr", "InterlockedXor",
     "InterlockedMin", "InterlockedMax", "InterlockedCompareExchange",
     "InterlockedExchange"}
CallNames      == {"mul", "sin", "interlockedadd"} \cup InterlockedNames
ArgCallNames   == {"mul", "sin", "InterlockedMin"}

(***************************************************************************)
(* Input programs.                                                         *)
(*                                                                         *)
(* ProgramStructs(N1, N2, T2, BT, TB):                                     *)
(*     struct N1 { float m1; };                                            *)
(*     struct N2 { T2 m2; };                                               *)
(*     BT { TB c : SEMANTIC; };                                            *)
(***************************************************************************)
ProgramStructs(N1, N2, T2, BT, TB) ==
    << ProgramNode(<<2, 7, 12>>),               \*  1
       StructDeclNode(3),                       \*  2
       StructureNode(N1, <<4>>),                \*  3
       VarDeclStmntNode(5, <<6>>),              \*  4
       VarTypeNode("float", NULL),              \*  5
       VarDeclNode("m1", <<>>, NULL),           \*  6
       StructDeclNode(8),                       \*  7
       StructureNode(N2, <<9>>),                \*  8
       VarDeclStmntNode(10, <<11>>),            \*  9
       VarTypeNode(T2, NULL),                   \* 10
       VarDeclNode("m2", <<>>, NULL),           \* 11
       BufferDeclNode(BT, <<13>>),              \* 12
       VarDeclStmntNode(14, <<15>>),            \* 13
       VarTypeNode(TB, NULL),                   \* 14
       VarDeclNode("c", <<16>>, NULL),          \* 15
       VarSemanticNode >>                       \* 16

(***************************************************************************)
(* ProgramEntry(F1, F2, RT, PT2, D2):                                      *)
(*     struct S { float p; };                                              *)
(*     struct VOut { float q; };                                           *)
(*     RT F1(S a, PT2 [b]) { VOut; VOut o; return; }                       *)
(*     VOut F2() { VOut; }                                                 *)
(* D2 is the declarator list of the second parameter (<<19>> or <<>>).     *)
(***************************************************************************)
ProgramEntry(F1, F2, RT, PT2, D2) ==
    << ProgramNode(<<2, 7, 12, 27>>),           \*  1
       StructDeclNode(3),                       \*  2
       StructureNode("S", <<4>>),               \*  3
       VarDeclStmntNode(5, <<6>>),              \*  4
       VarTypeNode("float", NULL),              \*  5
       VarDeclNode("p", <<>>, NULL),            \*  6
       StructDeclNode(8),                       \*  7
       StructureNode("VOut", <<9>>),            \*  8
       VarDeclStmntNode(10, <<11>>),            \*  9
       VarTypeNode("float", NULL),              \* 10
       VarDeclNode("q", <<>>, NULL),            \* 11
       FunctionDeclNode(F1, 13, <<14, 17>>, 20),\* 12
       VarTypeNode(RT, NULL),                   \* 13
       VarDeclStmntNode(15, <<16>>),            \* 14
       VarTypeNode("S", NULL),                  \* 15
       VarDeclNode("a", <<>>, NULL),            \* 16
       VarDeclStmntNode(18, D2),                \* 17
       VarTypeNode(PT2, NULL),                  \* 18
       VarDeclNode("b", <<>>, NULL),            \* 19
       CodeBlockNode(<<21, 23, 26>>),           \* 20
       VarDeclStmntNode(22, <<>>),              \* 21
       VarTypeNode("VOut", NULL),               \* 22
       VarDeclStmntNode(24, <<25>>),            \* 23
       VarTypeNode("VOut", NULL),               \* 24
       VarDeclNode("o", <<>>, NULL),            \* 25
       CtrlTransferStmntNode,                   \* 26
       FunctionDeclNode(F2, 28, <<>>, 29),      \* 27
       VarTypeNode("VOut", NULL),               \* 28
       CodeBlockNode(<<30>>),                   \* 29
       VarDeclStmntNode(31, <<>>),              \* 30
       VarTypeNode("VOut", NULL) >>             \* 31

(***************************************************************************)
(* ProgramScopes(NIN, T):                                                  *)
(*     struct S { float p; };                                              *)
(*     float main() {                                                      *)
(*         T u;                                                            *)
(*         { struct NIN {}; T v; }                                         *)
(*         T w;                                                            *)
(*     }                                                                   *)
(***************************************************************************)
ProgramScopes(NIN, T) ==
    << ProgramNode(<<2, 7>>),                   \*  1
       StructDeclNode(3),                       \*  2
       StructureNode("S", <<4>>),               \*  3
       VarDeclStmntNode(5, <<6>>),              \*  4
       VarTypeNode("float", NULL),              \*  5
       VarDeclNode("p", <<>>, NULL),            \*  6
       FunctionDeclNode("main", 8, <<>>, 9),    \*  7
       VarTypeNode("float", NULL),              \*  8
       CodeBlockNode(<<10, 13, 20>>),           \*  9
       VarDeclStmntNode(11, <<12>>),            \* 10
       VarTypeNode(T, NULL),                    \* 11
       VarDeclNode("u", <<>>, NULL),            \* 12
       CodeBlockNode(<<14, 17>>),               \* 13
       VarDeclStmntNode(15, <<>>),              \* 14
       VarTypeNode("", 16),                     \* 15
       StructureNode(NIN, <<>>),                \* 16
       VarDeclStmntNode(18, <<19>>),            \* 17
       VarTypeNode(T, NULL),                    \* 18
       VarDeclNode("v", <<>>, NULL),            \* 19
       VarDeclStmntNode(21, <<22>>),            \* 20
       VarTypeNode(T, NULL),                    \* 21
       VarDeclNode("w", <<>>, NULL) >>          \* 22

(***************************************************************************)
(* ProgramCalls(C1, C2), with a second, empty program object:              *)
(*     float foo() { float v = C1(C2()); }                                 *)
(***************************************************************************)
ProgramCalls(C1, C2) ==
    << ProgramNode(<<3>>),                      \*  1
       ProgramNode(<<>>),                       \*  2
       FunctionDeclNode("foo", 4, <<>>, 5),     \*  3
       VarTypeNode("float", NULL),              \*  4
       CodeBlockNode(<<6>>),                    \*  5
       VarDeclStmntNode(7, <<8>>),              \*  6
       VarTypeNode("float", NULL),              \*  7
       VarDeclNode("v", <<>>, 9),               \*  8
       FunctionCallNode(C1, <<10>>),            \*  9
       FunctionCallNode(C2, <<>>) >>            \* 10

(***************************************************************************)
(* ProgramClash(N, Ord): a structure and a function in the order Ord, then *)
(* a function declared ahead of its definition:                            *)
(*     struct S {};      S N();       (Ord = <<2, 4>>)                     *)
(*     S N();            struct S {}; (Ord = <<4, 2>>)                     *)
(*     float foo();                                                        *)
(*     float foo() {}                                                      *)
(***************************************************************************)
ProgramClash(N, Ord) ==
    << ProgramNode(Ord \o <<6, 8>>),            \*  1
       StructDeclNode(3),                       \*  2
       StructureNode("S", <<>>),                \*  3
       FunctionDeclNode(N, 5, <<>>, NULL),      \*  4
       VarTypeNode("S", NULL),                  \*  5
       FunctionDeclNode("foo", 7, <<>>, NULL),  \*  6
       VarTypeNode("float", NULL),              \*  7
       FunctionDeclNode("foo", 9, <<>>, 10),    \*  8
       VarTypeNode("float", NULL),              \*  9
       CodeBlockNode(<<>>) >>                   \* 10

\* the node that holds n as a child, NULL for a root
ParentIn(t, n) ==
    LET P == {m \in DOMAIN t :
                 \/ \E i \in 1..Len(t[m].list) : t[m].list[i] = n
                 \/ t[m].child = n
                 \/ t[m].body = n}
    IN  IF P = {} THEN NULL ELSE CHOOSE m \in P : TRUE

\* a node table with every node's position in the tree recorded in it
Linked(t) ==
    [n \in DOMAIN t |->
        [kind |-> t[n].kind, name |-> t[n].name, list |-> t[n].list,
         child |-> t[n].child, body |-> t[n].body, parent |-> ParentIn(t, n)]]

Programs ==
    { Linked(ProgramStructs(N1, N2, T2, BT, TB)) :
        N1 \in StructNames, N2 \in StructNames \cup {""},
        T2 \in {"S", "float", ""}, BT \in BufferTypes, TB \in StructNames }
    \cup
    { Linked(ProgramEntry(F1, F2, RT, PT2, D2)) :
        F1 \in FunctionNames, F2 \in FunctionNames, RT \in {"VOut", "float"},
        PT2 \in StructNames, D2 \in {<<19>>, <<>>} }
    \cup
    { Linked(ProgramScopes(NIN, T)) : NIN \in {"S", "L"}, T \in {"S", "L", ""} }
    \cup
    { Linked(ProgramClash(N, Ord)) : N \in {"S", "main"}, Ord \in {<<2, 4>>, <<4, 2>>} }
    \cup
    { Linked(ProgramCalls(C1, C2)) : C1 \in CallNames, C2 \in ArgCallNames }

VARIABLES
    ast,                  \* the node table of the program(s) handed to the analyzer
    flags,                \* ast->flags of every node
    aliasName,            \* Structure::aliasName of every node
    symbolRef,            \* VarType::symbolRef of every node
    log_,                 \* whether the analyzer was built with a logger
    entryPoint_,
    program_,
    hasErrors_,
    isInsideEntryPoint_,
    symTable_,            \* the stack of scopes, global scope first
    stack,                \* pending visitor calls, innermost first
    pc,                   \* "idle" between calls, "walk" inside DecorateAST, "crashed"
    errors,               \* every invocation of Error: [call, msg, ast]
    logged,               \* number of messages forwarded to the logger
    visited,              \* nodes visited by the running call, in order
    results,              \* what each finished call of DecorateAST returned
    frontOnEmpty          \* varDecls.front() was evaluated on an empty list

vars == << ast, flags, aliasName, symbolRef, log_, entryPoint_, program_, hasErrors_,
           isInsideEntryPoint_, symTable_, stack, pc, errors, logged, visited, results,
           frontOnEmpty >>

Nodes == DOMAIN ast
Type(n) == ast[n].kind
Roots == {n \in Nodes : Type(n) = "Program"}

EmptyScope == [x \in {} |-> NULL]

Init ==
    /\ ast \in Programs
    /\ flags = [n \in DOMAIN ast |-> {}]
    /\ aliasName = [n \in DOMAIN ast |-> ""]
    /\ symbolRef = [n \in DOMAIN ast |-> NULL]
    /\ log_ \in BOOLEAN
    /\ entryPoint_ = ""
    /\ program_ = NULL
    /\ hasErrors_ = FALSE            \* written at line 37 before it is ever read
    /\ isInsideEntryPoint_ = FALSE   \* the member's initializer in the class
    /\ symTable_ = << EmptyScope >>  \* the table is built with its global scope open
    /\ stack = <<>>
    /\ pc = "idle"
    /\ errors = <<>>
    /\ logged = 0
    /\ visited = <<>>
    /\ results = <<>>
    /\ frontOnEmpty = FALSE


(***************************************************************************)
(* The scoped symbol table (SymbolTable<AST>, held in symTable_).  A table *)
(* is the stack of open scopes, the global scope first and the innermost   *)
(* last; a scope maps identifiers to the declaring node.                   *)
(***************************************************************************)
SymOpenScope(tab) == Append(tab, EmptyScope)

\* a table that keeps the scope it is asked to close
SymCloseScope_KeepsScope(tab) == tab

SymCloseScope(tab) == SubSeq(tab, 1, Len(tab) - 1)

\* the entry of ident in the innermost scope, NULL when it has none
SymCurrent(tab, ident) ==
    IF ident \in DOMAIN tab[Len(tab)] THEN tab[Len(tab)][ident] ELSE NULL

\* insert ident, or update its slot, in the innermost scope
SymStore(tab, ident, n) ==
    [tab EXCEPT ![Len(tab)] = (ident :> n) @@ @]

RECURSIVE SymFetchFrom(_, _, _)
SymFetchFrom(tab, i, ident) ==
    IF i = 0 THEN NULL
    ELSE IF ident \in DOMAIN tab[i] THEN tab[i][ident]
    ELSE SymFetchFrom(tab, i - 1, ident)

\* innermost to outermost, first match or NULL
SymFetch(tab, ident) == SymFetchFrom(tab, Len(tab), ident)

(***************************************************************************)
(* Accessors, named as the members of the node classes.                    *)
(***************************************************************************)
globalDecls(n) == ast[n].list
stmnts(n)      == ast[n].list
arguments(n)   == ast[n].list
members(n)     == ast[n].list
parameters(n)  == ast[n].list
varDecls(n)    == ast[n].list
semantics(n)   == ast[n].list
structure(n)   == ast[n].child
returnType(n)  == ast[n].child
varType(n)     == ast[n].child
structType(n)  == ast[n].child
initializer(n) == ast[n].child
codeBlock(n)   == ast[n].body
name(n)        == ast[n].name
baseType(n)    == ast[n].name
bufferType(n)  == ast[n].name
\* FullVarIdent(ast->name): the called identifier chain, joined
FullVarIdent(n) == ast[n].name

\* flags << f
AddFlag(f, n, flag) == [f EXCEPT ![n] = @ \cup {flag}]

(***************************************************************************)
(* The call stack of the visitor.                                          *)
(***************************************************************************)
Task(op, n, isInput) == [op |-> op, node |-> n, isInput |-> isInput]
VisitTask(n) == Task("Visit", n, FALSE)

\* for (auto& x : list) Visit(x);
VisitAll(list) == [i \in 1..Len(list) |-> VisitTask(list[i])]

\* Visit(child), a no-op on a null child
VisitOpt(n) == IF n = NULL THEN <<>> ELSE << VisitTask(n) >>

At(op) == pc = "walk" /\ stack # <<>> /\ stack[1].op = op
AtVisit(kind) == At("Visit") /\ Type(stack[1].node) = kind
cur == stack[1].node

\* the running handler goes on with `tasks`, then returns to its caller
Continue(tasks) == stack' = tasks \o Tail(stack)

Visited == visited' = Append(visited, cur)

inputVars == << ast, log_ >>
treeVars  == << flags, aliasName, symbolRef >>
ctxVars   == << entryPoint_, program_ >>
errVars   == << hasErrors_, errors, logged >>
callVars  == << pc, results, frontOnEmpty >>

(***************************************************************************)
(* Error                                                                   *)
(***************************************************************************)
\* Error with the flag set inside "if (log_)"
Error_FlagOnlyWhenLogged(msg, n) ==
    /\ hasErrors_' = (hasErrors_ \/ log_)
    /\ errors' = Append(errors, [call |-> Len(results) + 1, msg |-> msg, ast |-> n])
    /\ logged' = IF log_ THEN logged + 1 ELSE logged

Error(msg, n) ==
    /\ hasErrors_' = TRUE
    /\ errors' = Append(errors, [call |-> Len(results) + 1, msg |-> msg, ast |-> n])
    /\ logged' = IF log_ THEN logged + 1 ELSE logged

(***************************************************************************)
(* Register: symTable_.Register throws when the identifier is already      *)
(* declared in the innermost scope and overrideProc rejects the existing   *)
(* symbol; the exception is caught and reported.  `overrides` is the value  *)
(* of overrideProc on the existing symbol.                                 *)
(***************************************************************************)
Register(ident, n, overrides) ==
    IF /\ SymCurrent(symTable_, ident) # NULL
       /\ ~overrides
    THEN /\ Error("duplicate symbol", n)
         /\ UNCHANGED symTable_
    ELSE /\ symTable_' = SymStore(symTable_, ident, n)
         /\ UNCHANGED errVars

\* a lookup that searches the global scope first
Fetch_OutermostFirst(ident) ==
    IF SymFetchFrom(symTable_, 1, ident) # NULL
    THEN SymFetchFrom(symTable_, 1, ident) ELSE SymFetch(symTable_, ident)

Fetch(ident) == SymFetch(symTable_, ident)

(***************************************************************************)
(* DecorateAST: the call, up to Visit(program)                             *)
(***************************************************************************)
DecorateAST(program, entryPoint) ==
    /\ pc = "idle"
    /\ Len(results) < MaxCalls
    /\ IF program = NULL
       THEN /\ results' = Append(results,
                  [program |-> NULL, entryPoint |-> entryPoint, ret |-> FALSE])
            /\ UNCHANGED << inputVars, treeVars, ctxVars, errVars, isInsideEntryPoint_,
                            symTable_, stack, pc, visited, frontOnEmpty >>
       ELSE /\ entryPoint_' = entryPoint
            /\ hasErrors_' = FALSE
            /\ program_' = program
            /\ stack' = << VisitTask(program) >>
            /\ pc' = "walk"
            /\ visited' = <<>>
            /\ UNCHANGED << inputVars, treeVars, errors, logged, isInsideEntryPoint_,
                            symTable_, results, frontOnEmpty >>

\* return !hasErrors_;
DecorateASTResult == ~hasErrors_

\* DecorateAST: Visit(program) has returned
DecorateASTReturn ==
    /\ pc = "walk"
    /\ stack = <<>>
    /\ results' = Append(results,
           [program |-> program_, entryPoint |-> entryPoint_, ret |-> DecorateASTResult])
    /\ pc' = "idle"
    /\ UNCHANGED << inputVars, treeVars, ctxVars, errVars, isInsideEntryPoint_,
                    symTable_, stack, visited, frontOnEmpty >>

(***************************************************************************)
(* Visit functions                                                         *)
(***************************************************************************)
VisitProgram ==
    /\ AtVisit("Program")
    /\ Continue(VisitAll(globalDecls(cur)))
    /\ Visited
    /\ UNCHANGED << inputVars, treeVars, ctxVars, errVars, callVars,
                    isInsideEntryPoint_, symTable_ >>

\* what VisitCodeBlock does after OpenScope()
CodeBlockTasks(n) == VisitAll(stmnts(n)) \o << Task("CloseScope", n, FALSE) >>

VisitCodeBlock ==
    /\ AtVisit("CodeBlock")
    /\ symTable_' = SymOpenScope(symTable_)
    /\ Continue(CodeBlockTasks(cur))
    /\ Visited
    /\ UNCHANGED << inputVars, treeVars, ctxVars, errVars, callVars, isInsideEntryPoint_ >>

\* VisitCodeBlock returning without CloseScope()
CodeBlockCloseScope_ScopeLeftOpen ==
    /\ At("CloseScope")
    /\ Continue(<<>>)
    /\ UNCHANGED << inputVars, treeVars, ctxVars, errVars, callVars,
                    isInsideEntryPoint_, visited, symTable_ >>

\* VisitCodeBlock, after the statements: CloseScope()
CodeBlockCloseScope ==
    /\ At("CloseScope")
    /\ symTable_' = SymCloseScope(symTable_)
    /\ Continue(<<>>)
    /\ UNCHANGED << inputVars, treeVars, ctxVars, errVars, callVars,
                    isInsideEntryPoint_, visited >>

\* the map with one of the eight entries left out
intrinsicMap_NoCompareExchange ==
    ("InterlockedAdd" :> "Interlocked") @@
    ("InterlockedAnd" :> "Interlocked") @@
    ("InterlockedOr" :> "Interlocked") @@
    ("InterlockedXor" :> "Interlocked") @@
    ("InterlockedMin" :> "Interlocked") @@
    ("InterlockedMax" :> "Interlocked") @@
    ("InterlockedExchange" :> "Interlocked")

\* EstablishMaps
intrinsicMap_ ==
    ("InterlockedAdd" :> "Interlocked") @@
    ("InterlockedAnd" :> "Interlocked") @@
    ("InterlockedOr" :> "Interlocked") @@
    ("InterlockedXor" :> "Interlocked") @@
    ("InterlockedMin" :> "Interlocked") @@
    ("InterlockedMax" :> "Interlocked") @@
    ("InterlockedCompareExchange" :> "Interlocked") @@
    ("InterlockedExchange" :> "Interlocked")

\* the program flags VisitFunctionCall adds for a call of `nm`
IntrinsicFlags(nm) ==
    IF nm = "mul" THEN {"mulIntrinsicUsed"}
    ELSE IF nm \in DOMAIN intrinsicMap_ /\ intrinsicMap_[nm] = "Interlocked"
         THEN {"interlockedIntrinsicsUsed"}
         ELSE {}

VisitFunctionCall ==
    /\ AtVisit("FunctionCall")
    /\ flags' = [flags EXCEPT ![program_] = @ \cup IntrinsicFlags(FullVarIdent(cur))]
    /\ Continue(VisitAll(arguments(cur)))
    /\ Visited
    /\ UNCHANGED << inputVars, aliasName, symbolRef, ctxVars, errVars, callVars,
                    isInsideEntryPoint_, symTable_ >>

\* the predicate accepting the type structures are registered with
StructureOverrideProc_AcceptsStructure(symbol) == Type(symbol) = "Structure"

\* the override predicate VisitStructure hands to Register
StructureOverrideProc(symbol) == Type(symbol) = "StructDecl"

VisitStructure ==
    /\ AtVisit("Structure")
    /\ IF name(cur) # ""
       THEN Register(name(cur), cur,
                     StructureOverrideProc(SymCurrent(symTable_, name(cur))))
       ELSE UNCHANGED << symTable_, errVars >>
    /\ Continue(VisitAll(members(cur)))
    /\ Visited
    /\ UNCHANGED << inputVars, treeVars, ctxVars, callVars, isInsideEntryPoint_ >>

\* a predicate accepting whatever the name is bound to
FunctionDeclOverrideProc_AcceptsAny(symbol) == TRUE

\* the override predicate VisitFunctionDecl hands to Register
FunctionDeclOverrideProc(symbol) == Type(symbol) = "FunctionDecl"

\* VisitFunctionDecl: register the name, visit the header
VisitFunctionDecl ==
    /\ AtVisit("FunctionDecl")
    /\ Register(name(cur), cur,
                FunctionDeclOverrideProc(SymCurrent(symTable_, name(cur))))
    /\ Continue(VisitOpt(returnType(cur)) \o VisitAll(parameters(cur))
                \o << Task("MarkEntryPoint", cur, FALSE) >>)
    /\ Visited
    /\ UNCHANGED << inputVars, treeVars, ctxVars, callVars, isInsideEntryPoint_ >>

\* the entry point compared with a fixed name instead of entryPoint_
IsEntryPoint_FixedName(n) == name(n) = "main"

\* const auto isEntryPoint = (ast->name == entryPoint_);
IsEntryPoint(n) == name(n) = entryPoint_

\* the calls of DecorateEntryInOut for the entry function n
EntryInOutTasks(n) ==
    << Task("DecorateEntryInOutType", returnType(n), FALSE) >>
    \o [i \in 1..Len(parameters(n)) |->
            Task("DecorateEntryInOutStmnt", parameters(n)[i], TRUE)]

\* VisitFunctionDecl, after the header: mark the main entry point
FunctionDeclMarkEntryPoint ==
    /\ At("MarkEntryPoint")
    /\ IF IsEntryPoint(cur)
       THEN /\ flags' = AddFlag(AddFlag(flags, cur, "isEntryPoint"), cur, "isUsed")
            /\ Continue(EntryInOutTasks(cur) \o << Task("FunctionBody", cur, FALSE) >>)
       ELSE /\ UNCHANGED flags
            /\ Continue(<< Task("FunctionBody", cur, FALSE) >>)
    /\ UNCHANGED << inputVars, aliasName, symbolRef, ctxVars, errVars, callVars,
                    isInsideEntryPoint_, symTable_, visited >>

\* VisitFunctionDecl: isInsideEntryPoint_ = isEntryPoint; Visit(ast->codeBlock);
FunctionDeclBody ==
    /\ At("FunctionBody")
    /\ isInsideEntryPoint_' = IsEntryPoint(cur)
    /\ Continue(VisitOpt(codeBlock(cur)) \o << Task("FunctionEnd", cur, FALSE) >>)
    /\ UNCHANGED << inputVars, treeVars, ctxVars, errVars, callVars, symTable_, visited >>

\* VisitFunctionDecl returning with isInsideEntryPoint_ as the body left it
FunctionDeclEnd_FlagLeft ==
    /\ At("FunctionEnd")
    /\ Continue(<<>>)
    /\ UNCHANGED << inputVars, treeVars, ctxVars, errVars, callVars, symTable_, visited,
                    isInsideEntryPoint_ >>

\* VisitFunctionDecl: isInsideEntryPoint_ = false;
FunctionDeclEnd ==
    /\ At("FunctionEnd")
    /\ isInsideEntryPoint_' = FALSE
    /\ Continue(<<>>)
    /\ UNCHANGED << inputVars, treeVars, ctxVars, errVars, callVars, symTable_, visited >>

StructFlag(isInput) == IF isInput THEN "isShaderInput" ELSE "isShaderOutput"

\* the structure a type's symbolRef refers to, NULL when it refers to none
RefStructure(vt) ==
    IF symbolRef[vt] # NULL /\ Type(symbolRef[vt]) = "Structure"
    THEN symbolRef[vt] ELSE NULL

\* the flag added to the inline structure only, not through symbolRef
WithStructFlags_InlineOnly(f, vt, isInput) ==
    IF structType(vt) # NULL
    THEN AddFlag(f, structType(vt), StructFlag(isInput)) ELSE f

\* the flags after the two "add flag to structure" steps of DecorateEntryInOut
WithStructFlags(f, vt, isInput) ==
    LET f1 == IF structType(vt) # NULL
              THEN AddFlag(f, structType(vt), StructFlag(isInput)) ELSE f
    IN  IF RefStructure(vt) # NULL
        THEN AddFlag(f1, RefStructure(vt), StructFlag(isInput)) ELSE f1

\* the alias name assigned for shader outputs only
EntryAliasAssigned_OutputOnly(n) ==
    RefStructure(varType(n)) # NULL /\ varDecls(n) # <<>> /\ ~stack[1].isInput

\* whether DecorateEntryInOut(VarDeclStmnt*) assigns the alias name
EntryAliasAssigned(n) == RefStructure(varType(n)) # NULL /\ varDecls(n) # <<>>

\* DecorateEntryInOut(VarDeclStmnt* ast, bool isInput)
DecorateEntryInOutStmnt ==
    /\ At("DecorateEntryInOutStmnt")
    /\ flags' = WithStructFlags(AddFlag(flags, cur, StructFlag(stack[1].isInput)),
                                varType(cur), stack[1].isInput)
    /\ aliasName' = IF EntryAliasAssigned(cur)
                    THEN [aliasName EXCEPT ![RefStructure(varType(cur))] =
                                                name(varDecls(cur)[1])]
                    ELSE aliasName
    /\ Continue(<<>>)
    /\ UNCHANGED << inputVars, symbolRef, ctxVars, errVars, callVars,
                    isInsideEntryPoint_, symTable_, visited >>

\* DecorateEntryInOut(VarType* ast, bool isInput)
DecorateEntryInOutType ==
    /\ At("DecorateEntryInOutType")
    /\ flags' = WithStructFlags(flags, cur, stack[1].isInput)
    /\ Continue(<<>>)
    /\ UNCHANGED << inputVars, aliasName, symbolRef, ctxVars, errVars, callVars,
                    isInsideEntryPoint_, symTable_, visited >>

\* if (ast->bufferType != "cbuffer") Error(...)
BufferTypeSupported(n) == bufferType(n) = "cbuffer"

\* the members skipped after the error
BufferDeclTasks_SkipUnsupported(n) ==
    IF BufferTypeSupported(n) THEN VisitAll(members(n)) ELSE <<>>

\* the members VisitBufferDecl visits
BufferDeclTasks(n) == VisitAll(members(n))

VisitBufferDecl ==
    /\ AtVisit("BufferDecl")
    /\ IF ~BufferTypeSupported(cur)
       THEN Error("buffer type currently not supported", cur)
       ELSE UNCHANGED errVars
    /\ Continue(BufferDeclTasks(cur))
    /\ Visited
    /\ UNCHANGED << inputVars, treeVars, ctxVars, callVars, isInsideEntryPoint_,
                    symTable_ >>

VisitStructDecl ==
    /\ AtVisit("StructDecl")
    /\ Continue(VisitOpt(structure(cur)))
    /\ Visited
    /\ UNCHANGED << inputVars, treeVars, ctxVars, errVars, callVars,
                    isInsideEntryPoint_, symTable_ >>

\* VisitVarDeclStmnt: visit the type and the declarators
VisitVarDeclStmnt ==
    /\ AtVisit("VarDeclStmnt")
    /\ Continue(VisitOpt(varType(cur)) \o VisitAll(varDecls(cur))
                \o << Task("DecorateVarType", cur, FALSE) >>)
    /\ Visited
    /\ UNCHANGED << inputVars, treeVars, ctxVars, errVars, callVars,
                    isInsideEntryPoint_, symTable_ >>

\* the outer guard of the "decorate variable type" part of VisitVarDeclStmnt
AliasGuard(n) == isInsideEntryPoint_ /\ varDecls(n) = <<>>

\* the structure whose alias name VisitVarDeclStmnt stores, NULL when it stores none
AliasTarget(n) ==
    LET s == RefStructure(varType(n))
    IN  IF /\ AliasGuard(n)
           /\ s # NULL
           /\ "isShaderOutput" \in flags[s]
           /\ aliasName[s] = ""
        THEN s ELSE NULL

\* what a read through varDecls.front() of an empty list can yield as a name
GarbageNames == {"", "garbage"}

\* VisitVarDeclStmnt, after the children: store the alias name.  The name is
\* read through varDecls.front(); on an empty list that is undefined: the read
\* faults, or yields some string.
VarDeclStmntDecorate ==
    /\ At("DecorateVarType")
    /\ IF AliasTarget(cur) = NULL
       THEN /\ Continue(<<>>)
            /\ UNCHANGED << aliasName, pc, frontOnEmpty >>
       ELSE IF varDecls(cur) # <<>>
       THEN /\ aliasName' = [aliasName EXCEPT ![AliasTarget(cur)] = name(varDecls(cur)[1])]
            /\ Continue(<<>>)
            /\ UNCHANGED << pc, frontOnEmpty >>
       ELSE /\ frontOnEmpty' = TRUE
            /\ \/ /\ pc' = "crashed"
                  /\ UNCHANGED << aliasName, stack >>
               \/ /\ \E g \in GarbageNames :
                        aliasName' = [aliasName EXCEPT ![AliasTarget(cur)] = g]
                  /\ Continue(<<>>)
                  /\ UNCHANGED pc
    /\ UNCHANGED << inputVars, flags, symbolRef, ctxVars, errVars, results,
                    isInsideEntryPoint_, symTable_, visited >>

VisitCtrlTransferStmnt ==
    /\ AtVisit("CtrlTransferStmnt")
    /\ Continue(<<>>)
    /\ Visited
    /\ UNCHANGED << inputVars, treeVars, ctxVars, errVars, callVars,
                    isInsideEntryPoint_, symTable_ >>

VisitVarSemantic ==
    /\ AtVisit("VarSemantic")
    /\ Continue(<<>>)
    /\ Visited
    /\ UNCHANGED << inputVars, treeVars, ctxVars, errVars, callVars,
                    isInsideEntryPoint_, symTable_ >>

VisitVarType ==
    /\ AtVisit("VarType")
    /\ IF baseType(cur) # ""
       THEN /\ symbolRef' = IF Fetch(baseType(cur)) # NULL
                            THEN [symbolRef EXCEPT ![cur] = Fetch(baseType(cur))]
                            ELSE symbolRef
            /\ Continue(<<>>)
            /\ UNCHANGED errVars
       ELSE IF structType(cur) # NULL
       THEN /\ Continue(<< VisitTask(structType(cur)) >>)
            /\ UNCHANGED << symbolRef, errVars >>
       ELSE /\ Error("missing variable type", cur)
            /\ Continue(<<>>)
            /\ UNCHANGED symbolRef
    /\ Visited
    /\ UNCHANGED << inputVars, flags, aliasName, ctxVars, callVars,
                    isInsideEntryPoint_, symTable_ >>

VisitVarDecl ==
    /\ AtVisit("VarDecl")
    /\ Continue(VisitAll(semantics(cur)) \o VisitOpt(initializer(cur)))
    /\ Visited
    /\ UNCHANGED << inputVars, treeVars, ctxVars, errVars, callVars,
                    isInsideEntryPoint_, symTable_ >>

Next ==
    \/ \E program \in Roots \cup {NULL}, entryPoint \in EntryNames :
          DecorateAST(program, entryPoint)
    \/ DecorateASTReturn
    \/ VisitProgram
    \/ VisitCodeBlock
    \/ CodeBlockCloseScope
    \/ VisitFunctionCall
    \/ VisitStructure
    \/ VisitFunctionDecl
    \/ FunctionDeclMarkEntryPoint
    \/ FunctionDeclBody
    \/ FunctionDeclEnd
    \/ DecorateEntryInOutStmnt
    \/ DecorateEntryInOutType
    \/ VisitBufferDecl
    \/ VisitStructDecl
    \/ VisitVarDeclStmnt
    \/ VarDeclStmntDecorate
    \/ VisitCtrlTransferStmnt
    \/ VisitVarSemantic
    \/ VisitVarType
    \/ VisitVarDecl

Spec == Init /\ [][Next]_vars


(***************************************************************************)
(* Vocabulary of the properties.                                           *)
(***************************************************************************)
\* the invocations of Error during the k-th call of DecorateAST
ErrorsOf(k) == {i \in 1..Len(errors) : errors[i].call = k}

\* the call that is running, or the last one that ran
CallNo == IF pc = "idle" THEN Len(results) ELSE Len(results) + 1

\* the k-th call has returned, and its program was handed to no earlier call
FreshCallDone(k) ==
    /\ k \in 1..Len(results)
    /\ results[k].program # NULL
    /\ \A j \in 1..(k - 1) : results[j].program # results[k].program

\* the last call has just returned and no later call has touched the tree
JustReturned(k) == pc = "idle" /\ k = Len(results)

FunctionDeclsOf(p) ==
    {globalDecls(p)[i] : i \in 1..Len(globalDecls(p))} \cap
    {n \in Nodes : Type(n) = "FunctionDecl"}

(***************************************************************************)
(* C1 (as amended): every call of DecorateAST with a non-null program      *)
(* returns false if and only if Error was invoked during that call; and    *)
(* within a call, once hasErrors_ is set no later step of the walk clears  *)
(* it.                                                                     *)
(***************************************************************************)
C1_NonNullReturn ==
    \A k \in 1..Len(results) :
        results[k].program # NULL =>
            ((results[k].ret = FALSE) <=> (ErrorsOf(k) # {}))

C1_ErrorFlagKept == (pc = "walk" /\ hasErrors_) => hasErrors_'

\* C1 (as amended): a call on a non-null program returns false iff it reported
\* an error, and no step of a walk clears hasErrors_
C1_ReturnsFalseIffErrorInNonNullCall ==
    [] C1_NonNullReturn /\ [][C1_ErrorFlagKept]_vars

\* C1 witness: a call on a program returned false after reporting errors, and
\* another call on a program returned true after reporting none
C1_Witness ==
    /\ \E k \in 1..Len(results) :
          results[k].program # NULL /\ ~results[k].ret /\ Cardinality(ErrorsOf(k)) >= 2
    /\ \E k \in 1..Len(results) :
          results[k].program # NULL /\ results[k].ret /\ ErrorsOf(k) = {}

\* C1 as stated: for every call, false is returned iff an error was reported
C1_ReturnsFalseIffError ==
    \A k \in 1..Len(results) : (results[k].ret = FALSE) <=> (ErrorsOf(k) # {})

(***************************************************************************)
(* C2 as stated: the outcome of a call depends only on its arguments: two  *)
(* calls on the same instance with the same program and entry point return *)
(* the same boolean and report the same number of diagnostics.             *)
(***************************************************************************)
C2_SameArgumentsSameOutcome ==
    \A i, j \in 1..Len(results) :
        (results[i].program = results[j].program
            /\ results[i].entryPoint = results[j].entryPoint) =>
            /\ results[i].ret = results[j].ret
            /\ Cardinality(ErrorsOf(i)) = Cardinality(ErrorsOf(j))

(***************************************************************************)
(* C3: when DecorateAST(program, E) has returned for a program not         *)
(* decorated before, a function declaration of the program carries         *)
(* isEntryPoint and isUsed if its name is E and neither flag otherwise.    *)
(***************************************************************************)
C3_EntrySelection ==
    \A k \in 1..Len(results) :
        (JustReturned(k) /\ FreshCallDone(k)) =>
            \A f \in FunctionDeclsOf(results[k].program) :
                IF name(f) = results[k].entryPoint
                THEN {"isEntryPoint", "isUsed"} \subseteq flags[f]
                ELSE {"isEntryPoint", "isUsed"} \cap flags[f] = {}

\* C3 witness: after such a call one function is the entry point and an
\* earlier one, with another name, is not
C3_Witness ==
    \E k \in 1..Len(results) :
        /\ JustReturned(k) /\ FreshCallDone(k)
        /\ \E f, g \in FunctionDeclsOf(results[k].program) :
              /\ g < f
              /\ name(f) = results[k].entryPoint
              /\ name(g) # results[k].entryPoint
              /\ "isEntryPoint" \in flags[f]
              /\ flags[g] = {}


(***************************************************************************)
(* Lexical structure of the tree, for the scoping properties.              *)
(***************************************************************************)
HasParent(n) == ast[n].parent # NULL
Parent(n) == ast[n].parent

\* the code blocks around n, n itself excluded
RECURSIVE EnclosingBlocks(_)
EnclosingBlocks(n) ==
    IF ~HasParent(n) THEN {}
    ELSE (IF Type(Parent(n)) = "CodeBlock" THEN {Parent(n)} ELSE {})
         \cup EnclosingBlocks(Parent(n))

\* the scope a declaration at n lands in: the innermost block around n, NULL
\* for the global scope
ScopeOf(n) ==
    IF EnclosingBlocks(n) = {} THEN NULL
    ELSE CHOOSE b \in EnclosingBlocks(n) :
            \A c \in EnclosingBlocks(n) : EnclosingBlocks(c) \subseteq EnclosingBlocks(b)

ScopeDepth(sc) == IF sc = NULL THEN 0 ELSE Cardinality(EnclosingBlocks(sc)) + 1

WasVisited(n) == \E i \in 1..Len(visited) : visited[i] = n
VisitIndex(n) == CHOOSE i \in 1..Len(visited) : visited[i] = n
VisitedBefore(d, v) == WasVisited(d) /\ WasVisited(v) /\ VisitIndex(d) < VisitIndex(v)

\* the blocks whose visit is under way, and those whose visit has completed
OpenBlocks == {stack[i].node : i \in {j \in 1..Len(stack) : stack[j].op = "CloseScope"}}
ClosedBlock(b) == Type(b) = "CodeBlock" /\ WasVisited(b) /\ b \notin OpenBlocks

\* the nodes the symbol table holds, in any scope
TableSymbols ==
    UNION {{symTable_[i][x] : x \in DOMAIN symTable_[i]} : i \in 1..Len(symTable_)}

\* no call on a program came before the running walk
FirstWalk ==
    pc = "walk" /\ \A k \in 1..Len(results) : results[k].program = NULL

Declarations == {n \in Nodes : Type(n) \in {"Structure", "FunctionDecl"} /\ name(n) # ""}

\* the declarations of nm in scope sc that precede v in the walk
DeclsBefore(sc, nm, v) ==
    {d \in Declarations : name(d) = nm /\ ScopeOf(d) = sc /\ VisitedBefore(d, v)}

\* the declaration scope sc binds nm to when v is visited: the first
\* declaration if it is a structure (nothing replaces a structure), else the
\* last function declaration (a function replaces a function)
ScopeBinding(sc, nm, v) ==
    LET D == DeclsBefore(sc, nm, v)
    IN  IF D = {} THEN NULL
        ELSE LET first == CHOOSE d \in D : \A e \in D : VisitIndex(d) <= VisitIndex(e)
                 F == {d \in D : Type(d) = "FunctionDecl"}
             IN  IF Type(first) = "Structure" THEN first
                 ELSE CHOOSE d \in F : \A e \in F : VisitIndex(e) <= VisitIndex(d)

\* the innermost declaration of v's base type name visible where v stands
LexicalResolve(v) ==
    LET scopes == {sc \in EnclosingBlocks(v) \cup {NULL} :
                      ScopeBinding(sc, baseType(v), v) # NULL}
    IN  IF scopes = {} THEN NULL
        ELSE ScopeBinding(CHOOSE sc \in scopes :
                              \A t \in scopes : ScopeDepth(t) <= ScopeDepth(sc),
                          baseType(v), v)

NamedVarTypes == {v \in Nodes : Type(v) = "VarType" /\ baseType(v) # ""}

(***************************************************************************)
(* C4: when a named structure is visited and its name is already bound in  *)
(* the innermost scope to a node the override predicate rejects (any node  *)
(* that is not a StructDecl), exactly one error is reported, for that      *)
(* structure; the symbol table is left as it was, so a fetch of the name   *)
(* still returns the first declaration; and the walk goes on with the      *)
(* members of the second structure.                                        *)
(***************************************************************************)
C4_DuplicateCase ==
    /\ AtVisit("Structure")
    /\ name(cur) # ""
    /\ SymCurrent(symTable_, name(cur)) # NULL
    /\ Type(SymCurrent(symTable_, name(cur))) # "StructDecl"

C4_DuplicateStep ==
    C4_DuplicateCase =>
        /\ errors' = Append(errors,
               [call |-> Len(results) + 1, msg |-> "duplicate symbol", ast |-> cur])
        /\ hasErrors_'
        /\ symTable_' = symTable_
        /\ SymFetch(symTable_', name(cur)) = SymCurrent(symTable_, name(cur))
        /\ stack' = VisitAll(members(cur)) \o Tail(stack)

\* C4: every visit of a structure whose name is already bound in the innermost
\* scope reports one error, keeps the first binding and goes on with the members
C4_DuplicateStructure == [][C4_DuplicateStep]_vars

\* C4 witness: in the first walk a second structure of the same name was
\* rejected with one error, the table still holds the first, and the member
\* of the second has been visited
C4_Witness ==
    /\ FirstWalk
    /\ \E s, t \in Nodes :
          /\ Type(s) = "Structure" /\ Type(t) = "Structure" /\ s # t
          /\ name(s) = name(t)
          /\ Cardinality({i \in 1..Len(errors) : errors[i].ast = t}) = 1
          /\ SymFetch(symTable_, name(t)) = s
          /\ \A i \in 1..Len(members(t)) : WasVisited(members(t)[i])

(***************************************************************************)
(* C5 as stated: once a structure's aliasName is non-empty, no later step  *)
(* of a walk changes it.                                                   *)
(***************************************************************************)
C5_AliasStep ==
    \A n \in Nodes : (pc = "walk" /\ aliasName[n] # "") => aliasName'[n] = aliasName[n]

\* C5 as stated: no step of a walk changes a non-empty alias name
C5_AliasFirstWriterWins == [][C5_AliasStep]_vars

(***************************************************************************)
(* C6: when DecorateAST has returned and the entry function's return type  *)
(* names a structure declared earlier at global scope, that structure      *)
(* carries isShaderOutput; decorating the return type leaves every alias   *)
(* name as it is (a return type has no declarator to take one from); and   *)
(* no step of a walk removes a flag from a node.                           *)
(***************************************************************************)
\* the global declaration the name nm is bound to ahead of the k-th global
\* declaration of program p: the first one of that name
GlobalDeclBefore(p, k, nm) ==
    LET D == {i \in 1..(k - 1) :
                 \/ /\ Type(globalDecls(p)[i]) = "StructDecl"
                    /\ name(structure(globalDecls(p)[i])) = nm
                 \/ /\ Type(globalDecls(p)[i]) = "FunctionDecl"
                    /\ name(globalDecls(p)[i]) = nm}
    IN  IF D = {} THEN NULL
        ELSE LET i == CHOOSE i \in D : \A j \in D : i <= j
             IN  IF Type(globalDecls(p)[i]) = "StructDecl"
                 THEN structure(globalDecls(p)[i]) ELSE globalDecls(p)[i]

C6_OutputFlagged ==
    \A c \in 1..Len(results) :
        (JustReturned(c) /\ results[c].program # NULL) =>
            \A k \in 1..Len(globalDecls(results[c].program)) :
                LET p == results[c].program
                    f == globalDecls(p)[k]
                IN  (/\ Type(f) = "FunctionDecl"
                     /\ name(f) = results[c].entryPoint
                     /\ baseType(returnType(f)) # ""
                     /\ GlobalDeclBefore(p, k, baseType(returnType(f))) # NULL
                     /\ Type(GlobalDeclBefore(p, k, baseType(returnType(f)))) = "Structure")
                    => "isShaderOutput" \in
                           flags[GlobalDeclBefore(p, k, baseType(returnType(f)))]

C6_FlagsStep ==
    /\ \A n \in Nodes : flags[n] \subseteq flags'[n]
    /\ At("DecorateEntryInOutType") => aliasName' = aliasName

C7_ClosedScopeGone ==
    \A s \in Declarations :
        (ScopeOf(s) # NULL /\ ClosedBlock(ScopeOf(s))) =>
            /\ s \notin TableSymbols
            /\ \A v \in NamedVarTypes :
                  (VisitedBefore(ScopeOf(s), v) /\ ScopeOf(s) \notin EnclosingBlocks(v))
                      => symbolRef[v] # s

C7_LexicalLookup ==
    FirstWalk =>
        \A v \in NamedVarTypes : WasVisited(v) => symbolRef[v] = LexicalResolve(v)

\* C7: declarations of closed blocks are gone, and every visited type name
\* refers to its innermost visible declaration
C7_Scoping == C7_ClosedScopeGone /\ C7_LexicalLookup

\* C7 witness: in the first walk a type inside a block refers to the structure
\* that block declares, the block is closed, and a later type of the same name
\* refers to the global structure of that name
C7_Witness ==
    /\ FirstWalk
    /\ \E v, w \in NamedVarTypes, s, t \in Declarations :
          /\ baseType(v) = baseType(w)
          /\ symbolRef[v] = s /\ symbolRef[w] = t
          /\ ScopeOf(s) # NULL /\ ClosedBlock(ScopeOf(s))
          /\ ScopeOf(t) = NULL
          /\ VisitedBefore(v, w)
          /\ s \notin TableSymbols

(***************************************************************************)
(* C8: throughout a walk over a program not decorated before, the program  *)
(* carries mulIntrinsicUsed iff a visited FunctionCall is named "mul", and *)
(* interlockedIntrinsicsUsed iff a visited FunctionCall has one of the     *)
(* eight Interlocked names; and no step changes the flags of a Program     *)
(* node other than the one being decorated.                                *)
(***************************************************************************)
VisitedCalls == {n \in Nodes : Type(n) = "FunctionCall" /\ WasVisited(n)}

C8_FlagsMatchCalls ==
    (pc = "walk" /\ \A k \in 1..Len(results) : results[k].program # program_) =>
        /\ ("mulIntrinsicUsed" \in flags[program_])
              <=> (\E c \in VisitedCalls : name(c) = "mul")
        /\ ("interlockedIntrinsicsUsed" \in flags[program_])
              <=> (\E c \in VisitedCalls : name(c) \in InterlockedNames)

C8_OtherProgramsStep ==
    \A r \in Roots : r # program_' => flags'[r] = flags[r]

\* C8: the two intrinsic flags of the decorated program match the visited
\* calls, and no other Program node is touched
C8_IntrinsicTracking == [] C8_FlagsMatchCalls /\ [][C8_OtherProgramsStep]_vars

\* C8 witness: a walk over a fresh program has ended with both flags set on it
\* and none on the other program object
C8_Witness ==
    /\ pc = "walk" /\ stack = <<>>
    /\ \A k \in 1..Len(results) : results[k].program # program_
    /\ {"mulIntrinsicUsed", "interlockedIntrinsicsUsed"} \subseteq flags[program_]
    /\ \E r \in Roots : r # program_ /\ flags[r] = {}

(***************************************************************************)
(* C9: visiting a BufferDecl reports exactly one error, for that buffer,   *)
(* when its bufferType is not "cbuffer" and none when it is; in both cases *)
(* the step goes on with the visits of all members and changes nothing     *)
(* else; and when the first walk ends, every member of every buffer has    *)
(* been visited and its type refers to what the name lexically resolves    *)
(* to, whatever the buffer type.                                           *)
(***************************************************************************)
C9_BufferStep ==
    AtVisit("BufferDecl") =>
        /\ stack' = VisitAll(members(cur)) \o Tail(stack)
        /\ UNCHANGED << symTable_, flags, aliasName, symbolRef, isInsideEntryPoint_ >>
        /\ errors' = IF bufferType(cur) = "cbuffer" THEN errors
                     ELSE Append(errors,
                              [call |-> Len(results) + 1,
                               msg |-> "buffer type currently not supported",
                               ast |-> cur])

C9_MembersDecorated ==
    (FirstWalk /\ stack = <<>>) =>
        \A b \in {n \in Nodes : Type(n) = "BufferDecl" /\ WasVisited(n)} :
            /\ Cardinality({i \in 1..Len(errors) : errors[i].ast = b})
                  = IF bufferType(b) = "cbuffer" THEN 0 ELSE 1
            /\ \A i \in 1..Len(members(b)) :
                  LET m == members(b)[i]
                  IN  /\ WasVisited(m) /\ WasVisited(varType(m))
                      /\ baseType(varType(m)) # "" =>
                            symbolRef[varType(m)] = LexicalResolve(varType(m))

\* C9: an unsupported buffer type costs exactly one error and nothing else
C9_UnsupportedBufferNonFatal == [] C9_MembersDecorated /\ [][C9_BufferStep]_vars

\* C9 witness: the first walk has ended, a "tbuffer" got its one error, and the
\* type of its member refers to a structure
C9_Witness ==
    /\ FirstWalk /\ stack = <<>>
    /\ \E b \in Nodes :
          /\ Type(b) = "BufferDecl" /\ bufferType(b) = "tbuffer"
          /\ Cardinality({i \in 1..Len(errors) : errors[i].ast = b}) = 1
          /\ \E i \in 1..Len(members(b)) :
                /\ symbolRef[varType(members(b)[i])] # NULL
                /\ WasVisited(varDecls(members(b)[i])[1])

(***************************************************************************)
(* C10 as stated: the walker never evaluates varDecls.front() of a         *)
(* statement whose declarator list is empty.                               *)
(***************************************************************************)
C10_FrontNeverOnEmptyList == frontOnEmpty = FALSE

(***************************************************************************)
(* C11.  DecorateEntryInOut(VarDeclStmnt*, isInput) is called for the      *)
(* parameters of the entry function only, always with isInput = true.      *)
(***************************************************************************)
\* a structure flagged as shader input only
InputOnly(s) ==
    /\ Type(s) = "Structure"
    /\ "isShaderInput" \in flags[s]
    /\ "isShaderOutput" \notin flags[s]

\* the statement as written: the step writes an alias name only when the
\* structure is being marked as shader output and a declarator exists
C11_OutputOnlyStep ==
    At("DecorateEntryInOutStmnt") =>
        \/ aliasName' = aliasName
        \/ ~stack[1].isInput /\ Len(ast[cur].list) > 0

\* C11 (as stated): the alias name is written only for shader outputs, a
\* structure marked as shader input through a parameter keeps its alias name
C11_AliasOnlyForOutputs == [][C11_OutputOnlyStep]_vars

C11_AliasStep ==
    At("DecorateEntryInOutStmnt") =>
        LET ref == symbolRef[ast[cur].child]
            decls == ast[cur].list
        IN  IF ref # NULL /\ ast[ref].kind = "Structure" /\ Len(decls) > 0
            THEN /\ aliasName'[ref] = ast[decls[1]].name
                 /\ \A s \in Nodes \ {ref} : aliasName'[s] = aliasName[s]
            ELSE aliasName' = aliasName

\* C11 (as amended): applied to a declaration statement, DecorateEntryInOut
\* writes the first declarator's name as the alias name of the structure the
\* type resolves to whenever the statement has a declarator, for inputs as
\* for outputs, and writes no alias name when there is no declarator or no
\* resolved structure
C11_AliasForInputsToo == [][C11_AliasStep]_vars

\* C11 witness: the entry function's parameters were decorated; a structure
\* flagged as input only carries the name of a parameter as its alias name,
\* and a parameter without declarator was flagged and gave no alias name
C11_Witness ==
    /\ FirstWalk
    /\ \E n \in Nodes :
          /\ Type(n) = "VarDeclStmnt"
          /\ "isShaderInput" \in flags[n]
          /\ varDecls(n) # <<>>
          /\ InputOnly(symbolRef[varType(n)])
          /\ aliasName[symbolRef[varType(n)]] = name(varDecls(n)[1])
    /\ \E n \in Nodes :
          /\ Type(n) = "VarDeclStmnt"
          /\ "isShaderInput" \in flags[n]
          /\ varDecls(n) = <<>>
          /\ symbolRef[varType(n)] # NULL
          /\ "isShaderInput" \in flags[symbolRef[varType(n)]]
          /\ aliasName[symbolRef[varType(n)]] = ""

(***************************************************************************)
(* C12.  Registration of functions, and of structures against functions.   *)
(***************************************************************************)
\* what the innermost scope binds nm to, NULL when it binds nothing
InnermostBinding(nm) ==
    LET top == symTable_[Len(symTable_)]
    IN  IF nm \in DOMAIN top THEN top[nm] ELSE NULL

\* the header and the body of function f
HeaderAndBody(f) ==
    ({ast[f].child, ast[f].body} \ {NULL}) \cup
    {ast[f].list[i] : i \in 1..Len(ast[f].list)}

OneDuplicateError ==
    /\ errors' = Append(errors,
           [call |-> Len(results) + 1, msg |-> "duplicate symbol", ast |-> cur])
    /\ hasErrors_'
    /\ symTable_' = symTable_

\* the innermost scope binds nm to n, and the table is otherwise as before
BoundInInnermost(nm, n) ==
    /\ Len(symTable_') = Len(symTable_)
    /\ \A i \in 1..(Len(symTable_) - 1) : symTable_'[i] = symTable_[i]
    /\ DOMAIN symTable_'[Len(symTable_)] = DOMAIN symTable_[Len(symTable_)] \cup {nm}
    /\ symTable_'[Len(symTable_)][nm] = n
    /\ \A x \in DOMAIN symTable_[Len(symTable_)] \ {nm} :
          symTable_'[Len(symTable_)][x] = symTable_[Len(symTable_)][x]

C12_FunctionStep ==
    AtVisit("FunctionDecl") =>
        LET old == InnermostBinding(ast[cur].name)
        IN  /\ \A c \in HeaderAndBody(cur) : ~WasVisited(c)
            /\ visited' = Append(visited, cur)
            /\ IF old = NULL \/ ast[old].kind = "FunctionDecl"
               THEN /\ errors' = errors
                    /\ hasErrors_' = hasErrors_
                    /\ BoundInInnermost(ast[cur].name, cur)
               ELSE OneDuplicateError

C12_StructureStep ==
    ( /\ AtVisit("Structure")
      /\ ast[cur].name # ""
      /\ InnermostBinding(ast[cur].name) # NULL
      /\ ast[InnermostBinding(ast[cur].name)].kind = "FunctionDecl" )
    => OneDuplicateError

\* C12: the visit of a function registers its name in the innermost scope
\* before header and body are visited: over no binding or over a function the
\* binding becomes the new function and nothing is reported, over anything
\* else one error is reported and the binding stays; a named structure over a
\* function gives one error and the function stays bound
C12_FunctionRegistration == [][C12_FunctionStep /\ C12_StructureStep]_vars

\* C12 witness: in one walk a function named as an earlier structure was
\* rejected with one error while the structure stays bound and the function's
\* header was still visited, and a function declared twice is bound to its
\* second declaration with no error for either
C12_Witness ==
    /\ FirstWalk
    /\ \E f \in Nodes :
          /\ Type(f) = "FunctionDecl"
          /\ Cardinality({i \in 1..Len(errors) : errors[i].ast = f}) = 1
          /\ InnermostBinding(name(f)) # NULL
          /\ Type(InnermostBinding(name(f))) = "Structure"
          /\ WasVisited(returnType(f))
    /\ \E g, h \in Nodes :
          /\ Type(g) = "FunctionDecl" /\ Type(h) = "FunctionDecl"
          /\ name(g) = name(h)
          /\ VisitedBefore(g, h)
          /\ InnermostBinding(name(h)) = h
          /\ \A i \in 1..Len(errors) : errors[i].ast \notin {g, h}

\* C12 witness of the symmetric case: a structure named as an earlier function
\* was rejected with one error and the function stays bound
C12_WitnessStructure ==
    /\ FirstWalk
    /\ \E t \in Nodes :
          /\ Type(t) = "Structure"
          /\ Cardinality({i \in 1..Len(errors) : errors[i].ast = t}) = 1
          /\ InnermostBinding(name(t)) # NULL
          /\ Type(InnermostBinding(name(t))) = "FunctionDecl"

(***************************************************************************)
(* C13.  The number of open scopes follows the code blocks around the node *)
(* the walk stands at.                                                     *)
(***************************************************************************)
\* the scopes open when DecorateAST is called: the global one
InitialScopes == Len(<< EmptyScope >>)

\* the code blocks whose statements are being visited when the walk stands at
\* the head of the stack: those around the node, and the node itself once
\* its statements are done and its scope is about to be closed
BlocksUnderWay ==
    IF stack = <<>> THEN {}
    ELSE EnclosingBlocks(cur) \cup
         (IF stack[1].op = "CloseScope" THEN {cur} ELSE {})

C13_ScopesFollowBlocks ==
    /\ Len(symTable_) >= InitialScopes
    /\ pc = "idle" => Len(symTable_) = InitialScopes
    /\ pc = "walk" => Len(symTable_) = InitialScopes + Cardinality(BlocksUnderWay)

C13_StatementsStep ==
    /\ AtVisit("CodeBlock") =>
          /\ Len(symTable_') = Len(symTable_) + 1
          /\ \A i \in 1..Len(symTable_) : symTable_'[i] = symTable_[i]
    /\ At("CloseScope") =>
          /\ Len(symTable_') = Len(symTable_) - 1
          /\ \A i \in 1..Len(symTable_') : symTable_'[i] = symTable_[i]
    /\ (pc = "walk" /\ ~AtVisit("CodeBlock") /\ ~At("CloseScope")) =>
          Len(symTable_') = Len(symTable_)

\* C13: the global scope is never closed; while the statements of a code
\* block are visited one scope is open for each block around the statement
\* besides the global one; only the visit of a block opens a scope and only
\* its end closes one; when DecorateAST returns only the global scope is open
C13_ScopeBalance == [] C13_ScopesFollowBlocks /\ [][C13_StatementsStep]_vars

\* C13 witness: a call has returned with only the global scope open after
\* reporting an error for a node two blocks deep
C13_Witness ==
    /\ pc = "idle"
    /\ Len(results) = 1
    /\ Len(symTable_) = InitialScopes
    /\ \E i \in 1..Len(errors) :
          /\ errors[i].call = 1
          /\ Cardinality(EnclosingBlocks(errors[i].ast)) = 2

(***************************************************************************)
(* C14.  The rule for VarType.                                             *)
(***************************************************************************)
\* the open scopes that bind nm, by their depth
ScopesBinding(nm) == {i \in 1..Len(symTable_) : nm \in DOMAIN symTable_[i]}

\* the binding of nm in the deepest open scope that has one
InnermostVisible(nm) ==
    LET i == CHOOSE j \in ScopesBinding(nm) : \A k \in ScopesBinding(nm) : k <= j
    IN  symTable_[i][nm]

NothingReported == errors' = errors /\ hasErrors_' = hasErrors_ /\ logged' = logged

C14_VarTypeStep ==
    AtVisit("VarType") =>
        IF ast[cur].name # ""
        THEN /\ NothingReported
             /\ \A n \in Nodes \ {cur} : symbolRef'[n] = symbolRef[n]
             /\ symbolRef'[cur] = IF ScopesBinding(ast[cur].name) # {}
                                  THEN InnermostVisible(ast[cur].name)
                                  ELSE symbolRef[cur]
             /\ stack' = Tail(stack)
        ELSE IF ast[cur].child # NULL
        THEN /\ NothingReported
             /\ symbolRef' = symbolRef
             /\ stack' = << VisitTask(ast[cur].child) >> \o Tail(stack)
        ELSE /\ errors' = Append(errors,
                    [call |-> Len(results) + 1, msg |-> "missing variable type",
                     ast |-> cur])
             /\ hasErrors_'
             /\ symbolRef' = symbolRef
             /\ stack' = Tail(stack)

\* C14: the visit of a VarType with a base type name reports nothing; it sets
\* the node's symbol reference to the binding of the name in the deepest open
\* scope that has one and leaves it unchanged when no open scope has one; with
\* no name and an inline structure it visits the structure and reports
\* nothing; with neither it reports one "missing variable type" error
C14_VarTypeRule == [][C14_VarTypeStep]_vars

\* C14 witness: in one walk a named type that no scope binds was visited and
\* has no symbol reference and no error, a type with an inline structure was
\* visited with no error and so was its structure, and a later type of that
\* structure's name refers to it, a declaration of an inner scope
C14_Witness ==
    /\ FirstWalk
    /\ \E u \in NamedVarTypes :
          /\ WasVisited(u)
          /\ symbolRef[u] = NULL
          /\ \A i \in 1..Len(errors) : errors[i].ast # u
    /\ \E t, v \in Nodes :
          /\ Type(t) = "VarType" /\ baseType(t) = "" /\ structType(t) # NULL
          /\ VisitedBefore(t, structType(t))
          /\ \A i \in 1..Len(errors) : errors[i].ast # t
          /\ v \in NamedVarTypes
          /\ symbolRef[v] = structType(t)
          /\ ScopeOf(structType(t)) # NULL

\* C14 witness of the error: a type with neither name nor structure was
\* visited and has exactly one error, and the walk went on after it
C14_WitnessMissing ==
    /\ FirstWalk
    /\ \E t \in Nodes :
          /\ Type(t) = "VarType" /\ baseType(t) = "" /\ structType(t) = NULL
          /\ Cardinality({i \in 1..Len(errors) : errors[i].ast = t}) = 1
          /\ \E n \in Nodes : VisitedBefore(t, n)

(***************************************************************************)
(* C15.  isInsideEntryPoint_ follows the function body the walk is in.     *)
(***************************************************************************)
\* the functions whose body n belongs to
InBodyOf(n) ==
    {f \in Nodes : /\ Type(f) = "FunctionDecl"
                   /\ ast[f].body # NULL
                   /\ ast[f].body \in EnclosingBlocks(n) \cup {n}}

\* the walk stands at a node: at its visit, at the end of its visit, or at
\* the end of a block
AtNode == pc = "walk" /\ stack # <<>>
             /\ stack[1].op \in {"Visit", "CloseScope", "DecorateVarType"}

\* the walk stands in the header part of VisitFunctionDecl, after the name
AtHeader == pc = "walk" /\ stack # <<>>
               /\ stack[1].op \in {"MarkEntryPoint", "DecorateEntryInOutType",
                                    "DecorateEntryInOutStmnt", "FunctionBody"}

C15_FlagFollowsBody ==
    /\ AtNode => (isInsideEntryPoint_ <=>
                      \E f \in InBodyOf(cur) : ast[f].name = entryPoint_)
    /\ AtHeader => ~isInsideEntryPoint_
    /\ (pc = "walk" /\ stack = <<>>) => ~isInsideEntryPoint_
    /\ pc = "idle" => ~isInsideEntryPoint_

\* C15: at every node of a function body isInsideEntryPoint_ is true exactly
\* when the function is named as the entry point; it is false at every node
\* outside the function bodies (headers, global declarations), and false when
\* DecorateAST returns
C15_InsideEntryFlag == C15_FlagFollowsBody

\* C15 witness: the walk stands at a statement in the body of a function that
\* is not the entry point, after the entry function and its body were
\* visited, and the flag is false
C15_Witness ==
    /\ AtVisit("VarDeclStmnt")
    /\ ~isInsideEntryPoint_
    /\ \E f \in InBodyOf(cur) : name(f) # entryPoint_
    /\ \E e \in Nodes :
          /\ Type(e) = "FunctionDecl"
          /\ name(e) = entryPoint_
          /\ codeBlock(e) # NULL
          /\ stmnts(codeBlock(e)) # <<>>
          /\ \A i \in 1..Len(stmnts(codeBlock(e))) : WasVisited(stmnts(codeBlock(e))[i])

\* C15 witness of the entry function: the walk stands at a statement of its
\* body two blocks deep and the flag is true
C15_WitnessInside ==
    /\ AtVisit("VarDeclStmnt")
    /\ isInsideEntryPoint_
    /\ Cardinality(EnclosingBlocks(cur)) = 2
    /\ \E f \in InBodyOf(cur) : name(f) = entryPoint_

(***************************************************************************)
(* C16.  The walk as the tree prescribes it.                               *)
(***************************************************************************)
\* the children the visit of n visits, in the order of the Visit function
ChildrenVisited(n) ==
    LET k == ast[n].kind
        one(c) == IF c = NULL THEN <<>> ELSE << c >>
    IN  IF k \in {"Program", "CodeBlock", "FunctionCall", "Structure", "BufferDecl"}
        THEN ast[n].list
        ELSE IF k = "FunctionDecl"
        THEN one(ast[n].child) \o ast[n].list \o one(ast[n].body)
        ELSE IF k = "StructDecl" THEN one(ast[n].child)
        ELSE IF k = "VarDeclStmnt" THEN one(ast[n].child) \o ast[n].list
        ELSE IF k = "VarDecl" THEN ast[n].list \o one(ast[n].child)
        ELSE IF k = "VarType" /\ ast[n].name = "" THEN one(ast[n].child)
        ELSE <<>>

\* the nodes of the subtrees of list[i..], depth-first, each before its children
RECURSIVE PreorderAll(_, _)
PreorderAll(list, i) ==
    IF i > Len(list) THEN <<>>
    ELSE << list[i] >> \o PreorderAll(ChildrenVisited(list[i]), 1)
                      \o PreorderAll(list, i + 1)

Preorder(n) == PreorderAll(<< n >>, 1)

\* the walk has visited, once each and in source order, the first nodes of
\* the program, and all of them when Visit(program) has returned
C16_VisitedInSourceOrder ==
    pc # "idle" =>
        LET order == Preorder(program_)
        IN  /\ Len(visited) <= Len(order)
            /\ visited = SubSeq(order, 1, Len(visited))
            /\ stack = <<>> => visited = order
            /\ (stack # <<>> /\ stack[1].op = "Visit") => order[Len(visited) + 1] = cur

\* a walk is under way and can take no further step
WalkStopped == pc \notin {"idle", "walk"}

\* C16: no walk stops before Visit(program) has returned, and every walk
\* visits the nodes of the program once each in source order, errors or not
C16_WalkCompletes == ~WalkStopped /\ C16_VisitedInSourceOrder

====
